---------------------------- MODULE Spec2Model ----------------------------
(***************************************************************************)
(* Pull-over traffic rule of the planning module                           *)
(* (modules/planning/tasks/traffic_decider/pull_over.cc).                  *)
(*                                                                         *)
(* One planning cycle is one call of PullOver::ApplyRule.  The scan loop   *)
(* of FindPullOverStop is modelled one iteration per step so that its      *)
(* accumulators (check_s, check_length, total_check_length) are state.     *)
(*                                                                         *)
(* All lengths are integers in centimetres (the code uses double metres):  *)
(* 5.0 m is 500, 2.1 m is 210, so that adc_width / 2 is exact.             *)
(***************************************************************************)
EXTENDS Integers, Sequences, FiniteSets

(***************************************************************************)
(* Bounds of the model.                                                    *)
(***************************************************************************)
\* reference_line.Length() is LineSteps scan steps long
LineSteps == 3
\* the largest max_check_distance, in scan steps
HorizonSteps == 3
\* the largest number of obstacles of a frame's path decision
MaxObstacles == 2

(***************************************************************************)
(* Program constants and parameters.                                       *)
(***************************************************************************)
kDistanceUnit == 500
PARKING_SPOT_LONGITUDINAL_BUFFER == 100
\* VehicleConfigHelper::GetConfig().vehicle_param()
adc_width == 210
adc_length == 400
\* config_.pull_over() parameters that no claim varies
stop_distance == 100
buffer_to_boundary == 30

\* config_.pull_over(): immutable per run
PullOverConfig(operation_length, plan_distance, max_check_distance) ==
  [ operation_length |-> operation_length, plan_distance |-> plan_distance,
    max_check_distance |-> max_check_distance ]

Configs ==
  { PullOverConfig(800, kDistanceUnit, HorizonSteps * kDistanceUnit - 300),
    PullOverConfig(300, 2 * kDistanceUnit, HorizonSteps * kDistanceUnit - 300),
    PullOverConfig(300, kDistanceUnit, 0) }

(***************************************************************************)
(* Geometry adapter: a straight reference line that starts at              *)
(* (RefOriginX, RefOriginY) and runs along the x axis.                     *)
(***************************************************************************)
RefOriginX == 200
RefOriginY == 50

\* reference_line.Length() of the frame's reference line
VARIABLE line_length

Length == line_length

SLToXY(sl) == [x |-> RefOriginX + sl.s, y |-> RefOriginY + sl.l]

XYToSL(p) == [s |-> p.x - RefOriginX, l |-> p.y - RefOriginY]

\* a reference point is looked up at s clamped to the line
ClampS(s) == IF s < 0 THEN 0 ELSE IF s > Length THEN Length ELSE s

\* the heading of the reference point at s is identified by that point's s
GetReferencePoint(s) ==
  [x |-> RefOriginX + ClampS(s), y |-> RefOriginY, heading |-> ClampS(s)]

\* a default-constructed common::PointENU
DefaultPoint == [x |-> 0, y |-> 0]

Min(a, b) == IF a < b THEN a ELSE b

(***************************************************************************)
(* Inputs of a cycle.                                                      *)
(***************************************************************************)
\* reference_line_info_->AdcSlBoundary().end_s()
AdcPositions == {0, 300}

SLBox(s0, s1, l0, l1) == [start_s |-> s0, end_s |-> s1, start_l |-> l0, end_l |-> l1]

\* PerceptionSLBoundary() of the obstacles a frame may hold
KerbBox == SLBox(1100, 1300, -400, -250)
LaneBox == SLBox(0, 600, -110, 100)

ObstacleCatalog ==
  << [is_static |-> TRUE,  is_virtual |-> FALSE, sl |-> KerbBox],
     [is_static |-> TRUE,  is_virtual |-> FALSE, sl |-> LaneBox],
     [is_static |-> TRUE,  is_virtual |-> TRUE,  sl |-> KerbBox],
     [is_static |-> FALSE, is_virtual |-> FALSE, sl |-> LaneBox] >>

\* the catalog's obstacles picked by the index set, in catalog order
RECURSIVE Pick(_, _)
Pick(indices, i) ==
  IF i > Len(ObstacleCatalog) THEN << >>
  ELSE IF i \in indices THEN << ObstacleCatalog[i] >> \o Pick(indices, i + 1)
  ELSE Pick(indices, i + 1)

ObstacleSnapshots ==
  { Pick(indices, 1) : indices \in { I \in SUBSET DOMAIN ObstacleCatalog :
                                       Cardinality(I) <= MaxObstacles } }

\* reference_line.GetRoadWidth(): the right road widths at a parking spot's
\* leading edge, centre and trailing edge
RoadWidthSamples ==
  { << 350, 350, 350 >>, << 250, 350, 350 >>, << 350, 250, 350 >>, << 350, 350, 250 >> }

(***************************************************************************)
(* Stop-site validator: PullOver::IsValidStop.                             *)
(***************************************************************************)
OutOfLine_BehindOnly(s) == s < 0

\* the range check of a stop arc length
OutOfLine(s) == s < 0 \/ s > Length

TooClose_NoOperationLength(s, adc_front_edge_s, cfg) == s - adc_front_edge_s < 0

TooClose_ByUnit(s, adc_front_edge_s, cfg) == s - adc_front_edge_s < kDistanceUnit

\* the stop is closer to the front edge than operation_length
TooClose(s, adc_front_edge_s, cfg) == s - adc_front_edge_s < cfg.operation_length

\* parking spot boundary
ParkingSpotBoundary(sl) ==
  [ start_s |-> sl.s - adc_length - PARKING_SPOT_LONGITUDINAL_BUFFER,
    end_s   |-> sl.s + PARKING_SPOT_LONGITUDINAL_BUFFER,
    start_l |-> sl.l - adc_width \div 2 - buffer_to_boundary,
    end_l   |-> sl.l + adc_width \div 2 ]

Separated_OnTouch(spot, obstacle_sl) ==
  \/ spot.start_s >= obstacle_sl.end_s
  \/ obstacle_sl.start_s >= spot.end_s
  \/ spot.start_l >= obstacle_sl.end_l
  \/ obstacle_sl.start_l >= spot.end_l

\* one box lies entirely beyond the other on s or on l
Separated(spot, obstacle_sl) ==
  \/ spot.start_s > obstacle_sl.end_s
  \/ obstacle_sl.start_s > spot.end_s
  \/ spot.start_l > obstacle_sl.end_l
  \/ obstacle_sl.start_l > spot.end_l

\* virtual or not static obstacles are skipped
Skipped(path_obstacle) == path_obstacle.is_virtual \/ ~path_obstacle.is_static

\* the loop over path_decision->path_obstacles().Items(), from item i on
RECURSIVE NoObstacleOverlaps(_, _, _)
NoObstacleOverlaps(spot, items, i) ==
  IF i > Len(items) THEN TRUE
  ELSE IF Skipped(items[i]) THEN NoObstacleOverlaps(spot, items, i + 1)
  ELSE IF ~Separated(spot, items[i].sl) THEN FALSE
  ELSE NoObstacleOverlaps(spot, items, i + 1)

\* IsValidStop(const common::SLPoint&)
IsValidStop(stop_point_sl, adc_front_edge_s, items, cfg) ==
  IF OutOfLine(stop_point_sl.s) THEN FALSE
  ELSE IF TooClose(stop_point_sl.s, adc_front_edge_s, cfg) THEN FALSE
  ELSE NoObstacleOverlaps(ParkingSpotBoundary(stop_point_sl), items, 1)

IsValidStopXY_NoXYToSL(stop_point, adc_front_edge_s, items, cfg) ==
  IsValidStop([s |-> stop_point.x, l |-> stop_point.y], adc_front_edge_s, items, cfg)

\* IsValidStop(const common::PointENU&)
IsValidStopXY(stop_point, adc_front_edge_s, items, cfg) ==
  IsValidStop(XYToSL(stop_point), adc_front_edge_s, items, cfg)

(***************************************************************************)
(* FindPullOverStop(stop_point_s, stop_point): the parking spot of a       *)
(* sampled s.  w_end, w_center, w_start are the right road                 *)
(* widths at the spot's leading edge, centre and trailing edge.            *)
(***************************************************************************)
MinWidth(w) == Min(Min(w[1], w[2]), w[3])

LateralOffset_NoBuffer(w_end, w_center, w_start) ==
  -(MinWidth(<< w_end, w_center, w_start >>) - adc_width \div 2)

LateralOffset(w_end, w_center, w_start) ==
  -(MinWidth(<< w_end, w_center, w_start >>) - adc_width \div 2 - buffer_to_boundary)

\* [found, sl]: found is FALSE for the return value -1
FindSpot(stop_point_s, w_end, w_center, w_start, adc_front_edge_s, items, cfg) ==
  LET stop_point_sl == [s |-> stop_point_s,
                        l |-> LateralOffset(w_end, w_center, w_start)]
  IN  IF OutOfLine(stop_point_s)
        THEN [found |-> FALSE, sl |-> stop_point_sl]
        ELSE [found |-> IsValidStop(stop_point_sl, adc_front_edge_s, items, cfg),
              sl    |-> stop_point_sl]

(***************************************************************************)
(* Forward site scanner: the lane checks of FindPullOverStop.              *)
(***************************************************************************)
\* hdmap lanes: id, turn, and for every id of right_neighbor_forward_lane_id
\* what HDMapUtil::BaseMapPtr()->GetLaneById() finds for it
Lane(id, turn, right) == [id |-> id, turn |-> turn, right |-> right]

\* results of reference_line.GetLaneFromS(check_s, &lanes)
LaneLists ==
  { << >>,
    << Lane("straight", "NO_TURN", << >>) >>,
    << Lane("left", "LEFT_TURN", << >>) >>,
    << Lane("inner", "NO_TURN", << "NOT_FOUND", "CITY_DRIVING" >>) >>,
    << Lane("kerbside", "NO_TURN", << "BIKING" >>) >>,
    << Lane("", "U_TURN", << >>), Lane("straight", "NO_TURN", << >>) >> }

\* hdmap::LaneInfoConstPtr lane, never assigned
NullLane == [id |-> "", turn |-> "null", right |-> << >>]

\* what a read through the null lane pointer may yield when it does not trap
GarbageLanes ==
  { Lane("garbage", "NO_TURN", << >>), Lane("garbage", "RIGHT_TURN", << "CITY_DRIVING" >>) }

\* the read through the null lane pointer traps
Trap == [id |-> "", turn |-> "trap", right |-> << >>]

\* the outcomes of lane->lane() on a null pointer
NullLaneOutcomes == {Trap} \cup GarbageLanes

\* the loop over lanes, from item i on
RECURSIVE FirstLane(_, _, _)
FirstLane(lanes, i, prev_lane_id) ==
  IF i > Len(lanes) THEN NullLane
  ELSE IF lanes[i].id = prev_lane_id THEN FirstLane(lanes, i + 1, prev_lane_id)
  ELSE lanes[i]

\* check turn type
IsTurn(lane) == lane.turn /= "NO_TURN"

\* check rightmost driving lane: the loop over the right neighbours, from i on
RECURSIVE RightmostDrivingLane(_, _)
RightmostDrivingLane(right, i) ==
  IF i > Len(right) THEN TRUE
  ELSE IF right[i] = "NOT_FOUND" THEN RightmostDrivingLane(right, i + 1)
  ELSE IF right[i] = "CITY_DRIVING" THEN FALSE
  ELSE RightmostDrivingLane(right, i + 1)

\* PathOverlap lists of reference_line.map_path()
Zone(s0, s1) == [start_s |-> s0, end_s |-> s1]

NoZones ==
  [crosswalk |-> << >>, junction |-> << >>, clear_area |-> << >>, speed_bump |-> << >>]

OverlapMaps ==
  { NoZones,
    [NoZones EXCEPT !.crosswalk  = << Zone(800, 1000) >>,
                    !.speed_bump = << Zone(1300, 2000) >>],
    [NoZones EXCEPT !.junction   = << Zone(0, 100), Zone(1000, 1300) >>,
                    !.clear_area = << Zone(1500, 1500) >>] }

\* one of the four loops of OnOverlap, from item i on
RECURSIVE InZones(_, _, _)
InZones(s, zones, i) ==
  IF i > Len(zones) THEN FALSE
  ELSE IF s >= zones[i].start_s /\ s <= zones[i].end_s THEN TRUE
  ELSE InZones(s, zones, i + 1)

OnOverlap(s, overlaps) ==
  IF InZones(s, overlaps.crosswalk, 1) THEN TRUE
  ELSE IF InZones(s, overlaps.junction, 1) THEN TRUE
  ELSE IF InZones(s, overlaps.clear_area, 1) THEN TRUE
  ELSE IF InZones(s, overlaps.speed_bump, 1) THEN TRUE
  ELSE FALSE

\* the loop condition
KeepChecking(total_check_length, cfg) == total_check_length < cfg.max_check_distance

RunComplete_Strict(check_length, cfg) == check_length > cfg.plan_distance

\* the qualifying run is long enough to try the parking spot
RunComplete(check_length, cfg) == check_length >= cfg.plan_distance

RunAfterInvalidSpot_Kept(check_length) == check_length

RunAfterInvalidSpot_OneBack(check_length) == check_length - kDistanceUnit

\* check_length after a parking spot that is not valid/available
RunAfterInvalidSpot(check_length) == 0

\* check_length after a sample that failed a lane check
RunAfterLaneReject(check_length) == 0

(***************************************************************************)
(* PullOverStatus of the planning state, and the decision emitter.         *)
(***************************************************************************)
\* planning_state without a pull_over message: every field at its default
NoPullOver ==
  [ has_pull_over |-> FALSE, in_pull_over |-> FALSE, reason |-> "unset",
    has_start_point |-> FALSE, start_point |-> DefaultPoint,
    has_stop_point |-> FALSE, stop_point |-> DefaultPoint,
    has_stop_point_heading |-> FALSE, stop_point_heading |-> 0 ]

IsPullOver_PresenceOnly(pull_over_status) == pull_over_status.has_pull_over

IsPullOver(pull_over_status) ==
  pull_over_status.has_pull_over /\ pull_over_status.in_pull_over

\* reuse existing/previously-set stop point
HasCachedStop(pull_over_status) ==
  pull_over_status.has_start_point /\ pull_over_status.has_stop_point

ClearPullOver_PointsOnly(pull_over_status) ==
  [ pull_over_status EXCEPT
      !.has_start_point = FALSE, !.start_point = DefaultPoint,
      !.has_stop_point = FALSE, !.stop_point = DefaultPoint,
      !.has_stop_point_heading = FALSE, !.stop_point_heading = 0 ]

\* planning_state->clear_pull_over()
ClearPullOver(pull_over_status) == NoPullOver

NoDecision == [reason_code |-> "none"]

StopDecision(point, stop_point_heading) ==
  [ reason_code |-> "STOP_REASON_PULL_OVER",
    distance_s |-> -stop_distance,
    stop_heading |-> stop_point_heading,
    stop_point |-> [x |-> point.x, y |-> point.y, z |-> 0] ]

BuildStopDecision_Unchecked(stop_line_s, point, stop_point_heading, create_ok, add_ok) ==
  [ stop_line_s |-> stop_line_s, stop_point |-> point, heading |-> stop_point_heading,
    obstacle |-> create_ok, stop_wall |-> create_ok /\ add_ok,
    decision |-> StopDecision(point, stop_point_heading) ]

\* create_ok, add_ok: CreateStopObstacle and AddObstacle returned an object
BuildStopDecision(stop_line_s, point, stop_point_heading, create_ok, add_ok) ==
  LET call == [ stop_line_s |-> stop_line_s, stop_point |-> point,
                heading |-> stop_point_heading,
                obstacle |-> FALSE, stop_wall |-> FALSE, decision |-> NoDecision ]
  IN  IF OutOfLine(stop_line_s) THEN call
      ELSE IF ~create_ok THEN call
      ELSE IF ~add_ok THEN [call EXCEPT !.obstacle = TRUE]
      ELSE [call EXCEPT !.obstacle = TRUE, !.stop_wall = TRUE,
                        !.decision = StopDecision(point, stop_point_heading)]

\* BuildPullOverStop: the stop decision it builds
PullOverStopDecision(point, create_ok, add_ok) ==
  LET stop_point_sl == XYToSL(point)
  IN  BuildStopDecision(stop_point_sl.s, point,
                        GetReferencePoint(stop_point_sl.s).heading, create_ok, add_ok)

RecordPullOver_StopOnly(pull_over_status, point, cfg) ==
  [ pull_over_status EXCEPT
      !.has_pull_over = TRUE, !.has_stop_point = TRUE, !.stop_point = point ]

RecordPullOver_StartAtStop(pull_over_status, point, cfg) ==
  [ pull_over_status EXCEPT
      !.has_pull_over = TRUE,
      !.has_start_point = TRUE, !.start_point = SLToXY([s |-> XYToSL(point).s, l |-> 0]),
      !.has_stop_point = TRUE, !.stop_point = point,
      !.has_stop_point_heading = TRUE,
      !.stop_point_heading = GetReferencePoint(XYToSL(point).s).heading ]

\* BuildPullOverStop: record in PlanningStatus
RecordPullOver(pull_over_status, point, cfg) ==
  LET stop_point_sl == XYToSL(point)
      start_point_sl == [s |-> stop_point_sl.s - cfg.operation_length, l |-> 0]
  IN  [ pull_over_status EXCEPT
          !.has_pull_over = TRUE,
          !.has_start_point = TRUE, !.start_point = SLToXY(start_point_sl),
          !.has_stop_point = TRUE, !.stop_point = point,
          !.has_stop_point_heading = TRUE,
          !.stop_point_heading = GetReferencePoint(stop_point_sl.s).heading ]

StatusAfterBuild_IfEmitted(pull_over_status, recorded, call) ==
  IF call.decision = NoDecision THEN pull_over_status ELSE recorded

\* BuildPullOverStop and BuildInLaneStop go on to write PlanningStatus
\* whatever their call of BuildStopDecision returned
StatusAfterBuild(pull_over_status, recorded, call) == recorded

\* BuildInLaneStop: the stop decision it builds
InLaneStopDecision(pull_over_stop_point, create_ok, add_ok) ==
  LET stop_point_sl == XYToSL(pull_over_stop_point)
      point == GetReferencePoint(stop_point_sl.s)
  IN  BuildStopDecision(stop_point_sl.s - stop_distance, [x |-> point.x, y |-> point.y],
                        point.heading, create_ok, add_ok)

(***************************************************************************)
(* State.                                                                  *)
(***************************************************************************)
VARIABLES
  cfg,                 \* config_.pull_over()
  adc_front_edge_s,    \* AdcSlBoundary().end_s() of the frame
  path_obstacles,      \* path_decision->path_obstacles() of the frame
  status,              \* planning_state.pull_over
  pc,                  \* "idle", "scan" (in FindPullOverStop), "returned", "crash"
  stop_point,          \* ApplyRule's local stop_point
  check_s,             \* FindPullOverStop locals
  check_length,
  total_check_length,
  outcome,             \* what the cycle built: "None", "NoOp", "FullPullOver", "FallbackInLane"
  built,               \* the BuildStopDecision call of the cycle and what it attached
  sample,              \* the sample the last loop iteration looked at
  scanner_runs,        \* calls of FindPullOverStop(stop_point) in the cycle
  prev,                \* the previous cycle: its outcome, and whether its inputs were the same
  ext_write,           \* PullOverStatus was written from outside since the previous cycle
  scan_log             \* the samples of the scan so far, summed up

vars ==
  << line_length, cfg, adc_front_edge_s, path_obstacles, status, pc, stop_point, check_s, check_length,
     total_check_length, outcome, built, sample, scanner_runs, prev, ext_write,
     scan_log >>

NoStop == [stop_line_s |-> 0, stop_point |-> DefaultPoint, heading |-> 0,
           obstacle |-> FALSE, stop_wall |-> FALSE, decision |-> [reason_code |-> "unbuilt"]]

NoSample ==
  [ s |-> 0, null_lane |-> FALSE, turn |-> "none", city_right |-> FALSE, in_zone |-> FALSE,
    run |-> 0, attempted |-> FALSE, valid |-> FALSE, road_right_width |-> 0, l |-> 0 ]

\* streak: the consecutive samples up to the last one that lay on a lane
\* found for them, NO_TURN, without CITY_DRIVING right neighbour, in no zone;
\* failed_s: the last sample whose parking spot an obstacle made invalid
NoLog == [streak |-> 0, failed_s |-> -1]

\* loop iterations done by the running scan
Iterations == total_check_length \div kDistanceUnit

NoPrev == [outcome |-> "None", same_inputs |-> FALSE]

\* before the first cycle: no pull over requested, nothing built
Constructed ==
  /\ status = NoPullOver
  /\ pc = "idle"
  /\ stop_point = DefaultPoint
  /\ check_s = 0
  /\ check_length = 0
  /\ total_check_length = 0
  /\ outcome = "None"
  /\ built = NoStop
  /\ sample = NoSample
  /\ scanner_runs = 0
  /\ prev = NoPrev
  /\ ext_write = FALSE
  /\ scan_log = NoLog

Init ==
  /\ line_length = LineSteps * kDistanceUnit
  /\ cfg \in Configs
  /\ adc_front_edge_s \in AdcPositions
  /\ path_obstacles \in ObstacleSnapshots
  /\ Constructed

(***************************************************************************)
(* Outside the rule: the trigger that requests a pull over, and the next   *)
(* planning cycle's frame.                                                 *)
(***************************************************************************)
ExternalTrigger ==
  /\ pc = "idle"
  /\ ~IsPullOver(status)
  /\ status' = [status EXCEPT !.has_pull_over = TRUE, !.in_pull_over = TRUE,
                              !.reason = "DESTINATION"]
  /\ ext_write' = TRUE
  /\ UNCHANGED << line_length, cfg, adc_front_edge_s, path_obstacles, pc, stop_point,
                  check_s, check_length, total_check_length, outcome, built, sample,
                  scanner_runs, prev, scan_log >>

\* the owner of PullOverStatus ends the pull over; the recorded points stay
ExternalCancel ==
  /\ pc = "idle"
  /\ IsPullOver(status)
  /\ status' = [status EXCEPT !.in_pull_over = FALSE]
  /\ ext_write' = TRUE
  /\ UNCHANGED << line_length, cfg, adc_front_edge_s, path_obstacles, pc, stop_point,
                  check_s, check_length, total_check_length, outcome, built, sample,
                  scanner_runs, prev, scan_log >>

\* the frame of the next cycle: its reference line, vehicle position, obstacles
NewFrame(lengths, adcs, snapshots) ==
  /\ pc = "returned"
  /\ \E len \in lengths, adc \in adcs, items \in snapshots :
       /\ line_length' = len
       /\ adc_front_edge_s' = adc
       /\ path_obstacles' = items
       /\ prev' = [ outcome |-> outcome,
                    same_inputs |-> /\ len = line_length
                                    /\ adc = adc_front_edge_s
                                    /\ items = path_obstacles ]
  /\ ext_write' = FALSE
  /\ pc' = "idle"
  /\ stop_point' = DefaultPoint
  /\ check_s' = 0
  /\ check_length' = 0
  /\ total_check_length' = 0
  /\ outcome' = "None"
  /\ built' = NoStop
  /\ sample' = NoSample
  /\ scanner_runs' = 0
  /\ scan_log' = NoLog
  /\ UNCHANGED << cfg, status >>

\* the next frame on the same reference line
NextFrame == NewFrame({line_length}, AdcPositions, ObstacleSnapshots)

(***************************************************************************)
(* PullOver::ApplyRule up to the scan loop of FindPullOverStop: IsPullOver,*)
(* and GetPullOverStop's reuse of the cached stop point.                   *)
(***************************************************************************)
ApplyRule ==
  /\ pc = "idle"
  /\ IF ~IsPullOver(status)
       THEN /\ pc' = "returned"
            /\ outcome' = "NoOp"
            /\ UNCHANGED << status, stop_point, built, check_s, check_length,
                            total_check_length, scanner_runs, prev, ext_write >>
       ELSE IF /\ HasCachedStop(status)
               /\ IsValidStopXY(status.stop_point, adc_front_edge_s, path_obstacles, cfg)
       THEN \E create_ok \in BOOLEAN, add_ok \in BOOLEAN :
              /\ stop_point' = status.stop_point
              /\ built' = PullOverStopDecision(status.stop_point, create_ok, add_ok)
              /\ status' = StatusAfterBuild(status,
                                             RecordPullOver(status, status.stop_point, cfg),
                                             built')
              /\ outcome' = "FullPullOver"
              /\ pc' = "returned"
              /\ UNCHANGED << check_s, check_length, total_check_length, scanner_runs,
                              prev, ext_write >>
       ELSE /\ stop_point' = IF HasCachedStop(status) THEN status.stop_point
                                                       ELSE DefaultPoint
            /\ pc' = "scan"
            /\ check_s' = adc_front_edge_s
            /\ check_length' = 0
            /\ total_check_length' = 0
            /\ scanner_runs' = scanner_runs + 1
            \* what came before the cycle is looked at when the cycle begins
            /\ prev' = NoPrev
            /\ ext_write' = FALSE
            /\ UNCHANGED << status, outcome, built >>
  /\ UNCHANGED << line_length, cfg, adc_front_edge_s, path_obstacles, sample, scan_log >>

(***************************************************************************)
(* One iteration of the while loop of FindPullOverStop, for the sample s.  *)
(***************************************************************************)
\* the sample as the iteration sees it
Looked(s, first, lane, overlaps) ==
  [ NoSample EXCEPT
      !.s = s,
      !.null_lane = (first = NullLane),
      !.run = check_length,
      !.turn = lane.turn,
      !.city_right = (\E i \in DOMAIN lane.right : lane.right[i] = "CITY_DRIVING"),
      !.in_zone = (\E kind \in DOMAIN overlaps :
                     \E i \in DOMAIN overlaps[kind] :
                       /\ overlaps[kind][i].start_s <= s
                       /\ s <= overlaps[kind][i].end_s) ]

\* the sample lay on a lane found for it that passes the lane checks
OnSuitableLane(sm) ==
  ~sm.null_lane /\ sm.turn = "NO_TURN" /\ ~sm.city_right /\ ~sm.in_zone

\* the sample's parking spot passed the range and clearance checks and failed
FailedOnObstacle(sm) ==
  /\ sm.attempted
  /\ ~sm.valid
  /\ ~OutOfLine(sm.s)
  /\ ~TooClose(sm.s, adc_front_edge_s, cfg)

\* the log with the sample sm added
Logged(sm) ==
  [ streak   |-> IF OnSuitableLane(sm) THEN scan_log.streak + 1 ELSE 0,
    failed_s |-> IF FailedOnObstacle(sm) THEN sm.s ELSE scan_log.failed_s ]

\* the read through the null lane pointer traps: the process ends
ScanTrap(s) ==
  /\ pc' = "crash"
  /\ sample' = [NoSample EXCEPT !.s = s, !.null_lane = TRUE, !.run = check_length]
  /\ UNCHANGED << check_length, stop_point, status, outcome, built >>

\* a lane check fails: continue
ScanReject(looked) ==
  /\ check_length' = RunAfterLaneReject(check_length)
  /\ sample' = looked
  /\ UNCHANGED << pc, stop_point, status, outcome, built >>

\* all the lane checks have passed
ScanAccept(s, looked) ==
  LET run == check_length + kDistanceUnit
  IN  IF ~RunComplete(run, cfg)
        THEN /\ check_length' = run
             /\ sample' = looked
             /\ UNCHANGED << pc, stop_point, status, outcome, built >>
        ELSE \E w \in RoadWidthSamples :
               LET spot == FindSpot(s, w[1], w[2], w[3],
                                    adc_front_edge_s, path_obstacles, cfg)
               IN  IF ~spot.found
                     THEN /\ check_length' = RunAfterInvalidSpot(run)
                          /\ sample' = [looked EXCEPT !.attempted = TRUE,
                                                      !.road_right_width = MinWidth(w),
                                                      !.l = spot.sl.l]
                          /\ UNCHANGED << pc, stop_point, status, outcome, built >>
                     ELSE \E create_ok \in BOOLEAN, add_ok \in BOOLEAN :
                            /\ check_length' = 0
                            /\ sample' = [looked EXCEPT !.attempted = TRUE, !.valid = TRUE,
                                                        !.road_right_width = MinWidth(w),
                                                        !.l = spot.sl.l]
                            /\ stop_point' = SLToXY(spot.sl)
                            /\ built' = PullOverStopDecision(SLToXY(spot.sl),
                                                             create_ok, add_ok)
                            /\ status' =
                                 StatusAfterBuild(status,
                                                  RecordPullOver(status, SLToXY(spot.sl), cfg),
                                                  built')
                            /\ outcome' = "FullPullOver"
                            /\ pc' = "returned"

\* the checks of the iteration on the lane it uses
ScanLane(s, first, lane, overlaps) ==
  IF lane = Trap THEN ScanTrap(s)
  ELSE IF IsTurn(lane) THEN ScanReject(Looked(s, first, lane, overlaps))
  ELSE IF ~RightmostDrivingLane(lane.right, 1)
    THEN ScanReject(Looked(s, first, lane, overlaps))
  ELSE IF OnOverlap(s, overlaps) THEN ScanReject(Looked(s, first, lane, overlaps))
  ELSE ScanAccept(s, Looked(s, first, lane, overlaps))

\* On a valid parking spot the scan returns 0 and ApplyRule goes on with
\* BuildPullOverStop.
ScanStep ==
  /\ pc = "scan"
  /\ KeepChecking(total_check_length, cfg)
  /\ \E lanes \in LaneLists, overlaps \in OverlapMaps :
       LET first == FirstLane(lanes, 1, "")
       IN  IF first = NullLane
             THEN \E null_outcome \in NullLaneOutcomes :
                    ScanLane(check_s + kDistanceUnit, first, null_outcome, overlaps)
             ELSE ScanLane(check_s + kDistanceUnit, first, first, overlaps)
  /\ scan_log' = Logged(sample')
  \* the locals end with the call
  /\ IF pc' = "returned"
       THEN check_s' = 0 /\ total_check_length' = 0
       ELSE /\ check_s' = check_s + kDistanceUnit
            /\ total_check_length' = total_check_length + kDistanceUnit
  /\ UNCHANGED << line_length, cfg, adc_front_edge_s, path_obstacles, scanner_runs, prev,
                  ext_write >>

(***************************************************************************)
(* The loop condition fails: FindPullOverStop and GetPullOverStop return   *)
(* -1 and ApplyRule goes on with BuildInLaneStop.                          *)
(***************************************************************************)
ScanExit ==
  /\ pc = "scan"
  /\ ~KeepChecking(total_check_length, cfg)
  /\ \E create_ok \in BOOLEAN, add_ok \in BOOLEAN :
       built' = InLaneStopDecision(stop_point, create_ok, add_ok)
  /\ status' = StatusAfterBuild(status, ClearPullOver(status), built')
  /\ outcome' = "FallbackInLane"
  /\ pc' = "returned"
  \* the locals end with the call
  /\ check_s' = 0
  /\ check_length' = 0
  /\ total_check_length' = 0
  /\ sample' = NoSample
  /\ scan_log' = NoLog
  /\ UNCHANGED << line_length, cfg, adc_front_edge_s, path_obstacles, stop_point,
                  scanner_runs, prev, ext_write >>

Next ==
  \/ ExternalTrigger
  \/ ExternalCancel
  \/ NextFrame
  \/ ApplyRule
  \/ ScanStep
  \/ ScanExit

Spec == Init /\ [][Next]_vars

(***************************************************************************)
(* Planning cycles whose frames may come with a new reference line, shorter *)
(* or longer than the one before: a recorded stop point may then lie past  *)
(* the line's end.                                                         *)
(***************************************************************************)
LineLengths == { LineSteps * kDistanceUnit, (LineSteps - 1) * kDistanceUnit }

Reroute == NewFrame(LineLengths, AdcPositions, ObstacleSnapshots)

RerouteNext ==
  \/ ExternalTrigger
  \/ Reroute
  \/ ApplyRule
  \/ ScanStep
  \/ ScanExit

RerouteSpec == Init /\ [][RerouteNext]_vars

(***************************************************************************)
(* The example scenario: the vehicle's front edge at s = 100 m on a line   *)
(* of 140 m, operation_length 3 m, plan_distance 10 m, and either no       *)
(* obstacle or one static obstacle beside the first parking spot.          *)
(***************************************************************************)
ExampleLength == 14000

ExampleAdc == 10000

ExampleConfig == PullOverConfig(300, 1000, ExampleLength - ExampleAdc)

ExampleObstacle ==
  [is_static |-> TRUE, is_virtual |-> FALSE, sl |-> SLBox(10800, 11800, -300, 0)]

ExampleSnapshots == { << >>, << ExampleObstacle >> }

ExampleInit ==
  /\ line_length = ExampleLength
  /\ cfg = ExampleConfig
  /\ adc_front_edge_s = ExampleAdc
  /\ path_obstacles \in ExampleSnapshots
  /\ Constructed

\* the vehicle stands still; the obstacle may come and go
ExampleFrame == NewFrame({line_length}, {ExampleAdc}, ExampleSnapshots)

ExampleNext ==
  \/ ExternalTrigger
  \/ ExternalCancel
  \/ ExampleFrame
  \/ ApplyRule
  \/ ScanStep
  \/ ScanExit

ExampleSpec == ExampleInit /\ [][ExampleNext]_vars

(***************************************************************************)
(* Properties.                                                             *)
(***************************************************************************)
\* candidate stop points the validator is asked about
CandidateS == { 100 * k - 100 : k \in 0 .. (Length \div 100 + 2) }
CandidateL == { -215, -115, 0 }
Candidates == [s : CandidateS, l : CandidateL]

\* the parking rectangle of a candidate, as the specification states it
Rectangle(sl) ==
  [ start_s |-> sl.s - adc_length - PARKING_SPOT_LONGITUDINAL_BUFFER,
    end_s   |-> sl.s + PARKING_SPOT_LONGITUDINAL_BUFFER,
    start_l |-> sl.l - 105 - buffer_to_boundary,
    end_l   |-> sl.l + 105 ]

Max(a, b) == IF a > b THEN a ELSE b

\* the two boxes share a point; a common edge counts
Intersects(a, b) ==
  /\ Max(a.start_s, b.start_s) <= Min(a.end_s, b.end_s)
  /\ Max(a.start_l, b.start_l) <= Min(a.end_l, b.end_l)

\* obstacle i of items is static, not virtual, and overlaps the rectangle of sl
Blocks(items, i, sl) ==
  /\ items[i].is_static
  /\ ~items[i].is_virtual
  /\ Intersects(items[i].sl, Rectangle(sl))

\* sl passes the range and the clearance check
Reachable(sl) ==
  /\ 0 <= sl.s
  /\ sl.s <= Length
  /\ sl.s - adc_front_edge_s >= cfg.operation_length

\* the frame's inputs are new: every combination of configuration, vehicle
\* position and obstacles occurs in such a state
FreshInputs == pc = "idle"

\* C1: IsValidStop returns false for every candidate whose s is less than
\* operation_length ahead of the front edge, whatever the lateral offset and
\* the obstacles (none included); so does the validation a scan attempted.
C1_MinimumClearance ==
  /\ FreshInputs =>
       \A sl \in Candidates : \A items \in {path_obstacles, << >>} :
         sl.s - adc_front_edge_s < cfg.operation_length
           => ~IsValidStop(sl, adc_front_edge_s, items, cfg)
  /\ (sample.attempted /\ sample.s - adc_front_edge_s < cfg.operation_length)
       => ~sample.valid

\* a scan validated a candidate on the line that no obstacle blocks, and
\* rejected it for being closer than operation_length
C1_Witness ==
  /\ sample.attempted
  /\ ~sample.valid
  /\ 0 <= sample.s /\ sample.s <= Length
  /\ sample.s - adc_front_edge_s < cfg.operation_length
  /\ \A i \in DOMAIN path_obstacles :
       ~Blocks(path_obstacles, i, [s |-> sample.s, l |-> sample.l])

\* the obstacles with obstacle i marked virtual, or marked not static
AsVirtual(items, i) == [items EXCEPT ![i].is_virtual = TRUE]
AsMoving(items, i) == [items EXCEPT ![i].is_static = FALSE]

\* for a candidate past the range and clearance checks, IsValidStop is false
\* exactly when a static, not virtual obstacle overlaps its rectangle
RejectedIffBlocked ==
  /\ FreshInputs =>
       \A sl \in Candidates :
         Reachable(sl) =>
           ( ~IsValidStop(sl, adc_front_edge_s, path_obstacles, cfg)
               <=> \E i \in DOMAIN path_obstacles : Blocks(path_obstacles, i, sl) )
  /\ (sample.attempted /\ Reachable([s |-> sample.s, l |-> sample.l]))
       => ( ~sample.valid
              <=> \E i \in DOMAIN path_obstacles :
                    Blocks(path_obstacles, i, [s |-> sample.s, l |-> sample.l]) )

\* C2 as stated: rejected iff blocked, and marking a blocking obstacle
\* virtual or not static makes the candidate valid.
C2_AsStated ==
  /\ RejectedIffBlocked
  /\ \A sl \in Candidates : \A i \in DOMAIN path_obstacles :
       (FreshInputs /\ Reachable(sl) /\ Blocks(path_obstacles, i, sl)) =>
         /\ IsValidStop(sl, adc_front_edge_s, AsVirtual(path_obstacles, i), cfg)
         /\ IsValidStop(sl, adc_front_edge_s, AsMoving(path_obstacles, i), cfg)

\* C2: rejected iff blocked, and marking a blocking obstacle virtual or not
\* static makes the candidate valid exactly when no other obstacle blocks it.
C2_RejectionOnOverlap ==
  /\ RejectedIffBlocked
  /\ \A sl \in Candidates : \A i \in DOMAIN path_obstacles :
       (FreshInputs /\ Reachable(sl) /\ Blocks(path_obstacles, i, sl)) =>
         LET alone == \A j \in DOMAIN path_obstacles :
                        j /= i => ~Blocks(path_obstacles, j, sl)
         IN  /\ IsValidStop(sl, adc_front_edge_s, AsVirtual(path_obstacles, i), cfg)
                  <=> alone
             /\ IsValidStop(sl, adc_front_edge_s, AsMoving(path_obstacles, i), cfg)
                  <=> alone

\* a scan validated a candidate past the range and clearance checks and
\* rejected it, with exactly one obstacle blocking, which touches the
\* rectangle on an edge only
C2_Witness ==
  LET sl == [s |-> sample.s, l |-> sample.l]
  IN  /\ sample.attempted
      /\ ~sample.valid
      /\ Reachable(sl)
      /\ \E i \in DOMAIN path_obstacles :
           /\ Blocks(path_obstacles, i, sl)
           /\ \/ path_obstacles[i].sl.start_s = Rectangle(sl).end_s
              \/ path_obstacles[i].sl.start_l = Rectangle(sl).end_l
           /\ \A j \in DOMAIN path_obstacles :
                j /= i => ~Blocks(path_obstacles, j, sl)
           /\ IsValidStop(sl, adc_front_edge_s, AsVirtual(path_obstacles, i), cfg)

\* this step is a call of ApplyRule in a cycle whose inputs and PullOverStatus
\* are the ones the previous cycle ended with, and that cycle built pc_outcome
Recalled(pc_outcome) ==
  /\ pc = "idle"
  /\ pc' /= "idle"
  /\ prev.outcome = pc_outcome
  /\ prev.same_inputs
  /\ ~ext_write

\* C3: the cycle after one that built the full pull over stop and recorded
\* its stop point, on the same obstacles, reference line and vehicle
\* position, builds the full pull over stop at exactly the recorded point
\* and does not call the scanner.
C3_CacheStability ==
  [][ (Recalled("FullPullOver") /\ status.has_stop_point) =>
        /\ pc' = "returned"
        /\ outcome' = "FullPullOver"
        /\ scanner_runs' = 0
        /\ stop_point' = status.stop_point
        /\ built'.stop_point = status.stop_point
        /\ status'.has_stop_point
        /\ status'.stop_point = status.stop_point ]_vars

\* a cycle reused the stop point of the previous cycle, found by a scan
C3_Witness ==
  /\ pc = "returned"
  /\ prev.outcome = "FullPullOver"
  /\ prev.same_inputs
  /\ outcome = "FullPullOver"
  /\ scanner_runs = 0
  /\ status.has_stop_point
  /\ stop_point = status.stop_point

\* the cycle has ended with the in-lane stop: GetPullOverStop failed
FellBack == pc = "returned" /\ outcome = "FallbackInLane"

\* C4: at the end of a cycle in which pull over was active and
\* GetPullOverStop failed, PullOverStatus holds no start point, no stop
\* point, no stop heading, and the active flag is not set.
C4_FallbackClearsState ==
  FellBack =>
    /\ ~status.has_start_point
    /\ ~status.has_stop_point
    /\ ~status.has_stop_point_heading
    /\ ~status.in_pull_over
    /\ ~IsPullOver(status)

\* a cycle fell back although a stop point was cached: the cached point failed
\* validation and the scan found none
C4_Witness ==
  /\ FellBack
  /\ scanner_runs = 1
  /\ stop_point /= DefaultPoint
  /\ status = NoPullOver

\* C5 as stated: the cycle after a fallback cycle, with no write to
\* PullOverStatus from outside in between, runs the scanner.
C5_RescanAfterFallback ==
  (pc = "returned" /\ prev.outcome = "FallbackInLane" /\ ~ext_write)
    => scanner_runs > 0

\* C6 as stated: the in-lane stop of a fallback cycle is at the reference
\* point of the vehicle's arc length, its stop wall stop_distance before it.
C6_FallbackAtVehicle ==
  FellBack =>
    /\ built.stop_point = [ x |-> GetReferencePoint(adc_front_edge_s).x,
                            y |-> GetReferencePoint(adc_front_edge_s).y ]
    /\ built.stop_line_s = adc_front_edge_s - stop_distance

\* the least n with n * kDistanceUnit >= max_check_distance
MaxIterations ==
  (cfg.max_check_distance + kDistanceUnit - 1) \div kDistanceUnit

\* C7 as stated: on every input the scan loop ends within
\* ceil(max_check_distance / 5.0) iterations with a stop point or none.
C7_BoundedScan ==
  /\ Iterations <= MaxIterations
  /\ pc \in {"idle", "scan", "returned"}
  /\ pc = "returned" => outcome \in {"NoOp", "FullPullOver", "FallbackInLane"}

\* C8 as stated: after a lane lookup that found no lane the scan goes on to a
\* defined result, and uses no lane record.
C8_NoLaneHandled ==
  sample.null_lane => (pc /= "crash" /\ sample.turn = "none")

\* the sample is disqualified: a turn lane, a CITY_DRIVING right neighbour, an
\* overlap zone, or a parking spot that failed validation
Disqualified(sm) ==
  \/ sm.turn \notin {"none", "NO_TURN"}
  \/ sm.city_right
  \/ sm.in_zone
  \/ (sm.attempted /\ ~sm.valid)

\* C9: after a disqualified sample the qualifying run is 0 and the scan is
\* still in its loop: it has not returned.
C9_RunReset ==
  Disqualified(sample) => (check_length = 0 /\ pc = "scan" /\ outcome = "None")

\* a parking spot failed validation: the run under way is reset and the loop goes on
C9_Witness ==
  /\ pc = "scan"
  /\ check_length = 0
  /\ sample.run > 0
  /\ sample.attempted
  /\ ~sample.valid
  /\ Iterations < MaxIterations

\* C10: a sample that passes the lane checks has its parking spot validated
\* exactly when the run, this sample counted, is at least plan_distance; no
\* other sample is validated.
C10_AttemptAtPlanDistance ==
  sample.turn /= "none" =>
    ( sample.attempted
        <=> /\ sample.turn = "NO_TURN"
            /\ ~sample.city_right
            /\ ~sample.in_zone
            /\ sample.run + kDistanceUnit >= cfg.plan_distance )

\* a run of two samples reached plan_distance exactly and was validated
C10_Witness ==
  /\ sample.attempted
  /\ sample.run > 0
  /\ sample.run + kDistanceUnit = cfg.plan_distance

\* the scan of a cycle has returned a stop point
ScanFound == pc = "returned" /\ outcome = "FullPullOver" /\ scanner_runs = 1

\* every sample of the scan so far lay on a suitable lane
CleanScan == scan_log.streak * kDistanceUnit = sample.s - adc_front_edge_s

\* the example without the obstacle: front edge at 100 m, operation_length
\* 3 m, plan_distance 10 m, no turn, no zone, no obstacle, and the scan has
\* returned a stop point where the right road width is 3.5 m
ExampleStop ==
  /\ adc_front_edge_s = ExampleAdc
  /\ cfg.operation_length = 300
  /\ cfg.plan_distance = 1000
  /\ path_obstacles = << >>
  /\ ScanFound
  /\ CleanScan
  /\ sample.road_right_width = 350

\* C11 as stated: in the example the scanner selects check_s = 113 m with
\* lateral offset -2.15 m, and (113, -2.15) is a valid stop.
C11_AsStated ==
  ExampleStop =>
    /\ sample.s = 11300
    /\ sample.l = -215
    /\ IsValidStop([s |-> 11300, l |-> -215], adc_front_edge_s, path_obstacles, cfg)

\* C11: in the example the scanner selects check_s = 110 m, the second
\* sample, with lateral offset -2.15 m; (110, -2.15) is a valid stop and the
\* stop point handed on is its Cartesian point.  No scan from 100 m samples
\* 113 m.
C11_ExampleSelection ==
  /\ ExampleStop =>
        /\ sample.s = 11000
        /\ sample.l = -215
        /\ IsValidStop([s |-> 11000, l |-> -215], adc_front_edge_s, path_obstacles, cfg)
        /\ XYToSL(stop_point) = [s |-> 11000, l |-> -215]
  /\ (pc = "scan" /\ adc_front_edge_s = ExampleAdc) => check_s /= 11300

\* the example's scan returned its stop point
C11_Witness == ExampleStop /\ sample.attempted /\ sample.valid /\ sample.run = kDistanceUnit

\* the samples after the last failed one and before the returned one
SkippedSamples ==
  { s \in scan_log.failed_s + 1 .. sample.s - 1 :
      (s - scan_log.failed_s) % kDistanceUnit = 0 }

\* a static, not virtual obstacle overlaps the parking rectangle at s, at the
\* lateral offset of the returned stop
BlockedAt(s) ==
  \E i \in DOMAIN path_obstacles : Blocks(path_obstacles, i, [s |-> s, l |-> sample.l])

\* a scan whose samples all lay on suitable lanes had a parking spot fail on
\* an obstacle, and has gone on to return a stop point
FoundAfterFailure == ScanFound /\ CleanScan /\ scan_log.failed_s >= 0

\* the samples a qualifying run needs: the least n with n * 5.0 >= plan_distance
RunSamples == (cfg.plan_distance + kDistanceUnit - 1) \div kDistanceUnit

\* C12 as stated: the stop point returned after a failed validation is at
\* the first sample after the failed one whose rectangle no static obstacle
\* overlaps; every sample passed over in between is blocked.
C12_AsStated ==
  FoundAfterFailure =>
    /\ ~BlockedAt(sample.s)
    /\ \A s \in SkippedSamples : BlockedAt(s)

\* C12: the stop point returned after a failed validation is at the sample
\* at which a new qualifying run of plan_distance, begun after the failed
\* sample, is complete, and its rectangle is free; the samples in between
\* are passed over whether blocked or not.
C12_NextFullRun ==
  FoundAfterFailure =>
    /\ sample.s = scan_log.failed_s + RunSamples * kDistanceUnit
    /\ sample.run = (RunSamples - 1) * kDistanceUnit
    /\ ~BlockedAt(sample.s)

\* a stop point was returned after a failed validation, and a sample with a
\* free rectangle was passed over on the way
C12_Witness ==
  /\ FoundAfterFailure
  /\ \E s \in SkippedSamples : ~BlockedAt(s)

\* PullOverStatus is absent, or present with the active flag not set
Inactive == ~status.has_pull_over \/ ~status.in_pull_over

\* C13: a call of ApplyRule with PullOverStatus absent or not active returns
\* at once: no stop obstacle, no stop wall, no stop decision, no scan, and
\* PullOverStatus as it was.
C13_InactiveNoOp ==
  [][ (pc = "idle" /\ pc' /= "idle" /\ Inactive) =>
        /\ pc' = "returned"
        /\ outcome' = "NoOp"
        /\ status' = status
        /\ built' = NoStop
        /\ scanner_runs' = 0
        /\ stop_point' = DefaultPoint ]_vars

\* a cycle was a no-op on a PullOverStatus that is present, holds a recorded
\* stop point, and had its active flag taken back
C13_Witness ==
  /\ pc = "returned"
  /\ outcome = "NoOp"
  /\ built = NoStop
  /\ status.has_pull_over
  /\ ~status.in_pull_over
  /\ status.has_stop_point

\* C14: start_point and stop_point of PullOverStatus are both present or both
\* absent, at the end of every cycle and at every step on the way there.
C14_PointsPaired ==
  /\ status.has_start_point <=> status.has_stop_point
  /\ (pc = "returned" /\ outcome = "FullPullOver")
       => (status.has_start_point /\ status.has_stop_point)
  /\ (pc = "returned" /\ outcome = "FallbackInLane")
       => (~status.has_start_point /\ ~status.has_stop_point)

\* a cycle has recorded both points: the stop point and, operation_length
\* before it on the line, the start point
C14_Witness ==
  /\ pc = "returned"
  /\ outcome = "FullPullOver"
  /\ status.has_start_point
  /\ status.has_stop_point
  /\ status.start_point /= status.stop_point

\* a cycle has ended after its call of BuildStopDecision
Built == pc = "returned" /\ outcome \in {"FullPullOver", "FallbackInLane"}

\* the stop obstacle could not be created or registered: the stop line is off
\* the reference line, or CreateStopObstacle or AddObstacle returned null
NoStopWall ==
  \/ built.stop_line_s < 0
  \/ built.stop_line_s > line_length
  \/ ~built.obstacle
  \/ ~built.stop_wall

\* C15: a cycle whose stop obstacle could not be created or registered
\* attaches no stop decision and still returns, on the full pull over and on
\* the fallback path; with the stop wall registered the decision is attached.
C15_NoWallNoDecision ==
  /\ (Built /\ NoStopWall) => built.decision = NoDecision
  /\ (Built /\ ~NoStopWall) => built.decision.reason_code = "STOP_REASON_PULL_OVER"
  /\ ~Built => built = NoStop

\* a full pull over cycle created the stop obstacle, could not register it,
\* and returned without a stop decision
C15_Witness ==
  /\ pc = "returned"
  /\ outcome = "FullPullOver"
  /\ built.stop_line_s >= 0
  /\ built.stop_line_s <= line_length
  /\ built.obstacle
  /\ ~built.stop_wall
  /\ built.decision = NoDecision

StopS == XYToSL(stop_point).s

\* the arc length of the recorded stop point
CachedS == XYToSL(status.stop_point).s

\* this step is a call of ApplyRule with pull over active and a stop point
\* recorded
CalledWithCache ==
  /\ pc = "idle"
  /\ pc' /= "idle"
  /\ status.has_pull_over
  /\ status.in_pull_over
  /\ status.has_start_point
  /\ status.has_stop_point

\* C17: a recorded stop point whose arc length is off the reference line is
\* not reused: the scanner runs.  A sample off the line whose parking spot
\* the scan asks for is a failed validation: the run is reset and the scan
\* goes on.  The stop point of a full pull over is on the line.
C17_OffLineIsNoPoint ==
  [][ /\ (CalledWithCache /\ (CachedS < 0 \/ CachedS > line_length))
           => (pc' = "scan" /\ scanner_runs' = 1 /\ outcome' = "None")
      /\ (pc = "scan" /\ sample'.attempted /\ sample'.s > line_length)
           => (~sample'.valid /\ check_length' = 0 /\ pc' = "scan")
      /\ (pc' = "returned" /\ outcome' = "FullPullOver")
           => /\ 0 <= StopS'
              /\ StopS' <= line_length'
              /\ built'.stop_line_s = StopS' ]_vars

\* the recorded stop point lies past the end of the new, shorter reference
\* line; the scanner runs, and has just been refused a parking spot past the
\* line's end as well
C17_Witness ==
  /\ pc = "scan"
  /\ HasCachedStop(status)
  /\ CachedS > line_length
  /\ sample.attempted
  /\ sample.s > line_length
  /\ ~sample.valid
  /\ check_length = 0

\* the cycle ends with this step, in the full pull over
EndsInFullPullOver == pc /= "returned" /\ pc' = "returned" /\ outcome' = "FullPullOver"

\* C18: at the end of a full pull over cycle PullOverStatus holds the stop
\* point the cycle emitted, the heading of the reference line at the stop
\* point's arc length, and as start point the point of the reference line
\* operation_length before it (l = 0); active flag and reason are as before.
C18_RecordedPullOver ==
  [][ EndsInFullPullOver =>
        /\ status'.has_stop_point
        /\ status'.stop_point = built'.stop_point
        /\ status'.stop_point = stop_point'
        /\ status'.has_stop_point_heading
        /\ status'.stop_point_heading = GetReferencePoint(StopS').heading
        /\ status'.stop_point_heading = built'.heading
        /\ status'.has_start_point
        /\ status'.start_point = [ x |-> RefOriginX + StopS' - cfg.operation_length,
                                   y |-> RefOriginY ]
        /\ status'.has_pull_over
        /\ status'.in_pull_over = status.in_pull_over
        /\ status'.reason = status.reason ]_vars

\* a scan's stop point beside the lane was recorded, with the start point on
\* the reference line before it, and its stop decision was attached
C18_Witness ==
  /\ ScanFound
  /\ built.decision.reason_code = "STOP_REASON_PULL_OVER"
  /\ status.stop_point = stop_point
  /\ status.stop_point.y /= RefOriginY
  /\ status.start_point.y = RefOriginY
  /\ status.start_point.x < status.stop_point.x
  /\ status.reason = "DESTINATION"

\* the cycle ends with this step, after a call of BuildStopDecision
EndsBuilt ==
  pc /= "returned" /\ pc' = "returned" /\ outcome' \in {"FullPullOver", "FallbackInLane"}

\* C19: the PullOverStatus a cycle leaves is the same whether or not its
\* stop decision was attached: the stop point recorded on the full pull
\* over path, everything cleared on the fallback path.
C19_StateWhateverDecision ==
  [][ EndsBuilt =>
        /\ outcome' = "FullPullOver" =>
              /\ status'.has_start_point
              /\ status'.has_stop_point
              /\ status'.stop_point = stop_point'
              /\ status'.in_pull_over
        /\ outcome' = "FallbackInLane" =>
              /\ ~status'.has_pull_over
              /\ ~status'.in_pull_over
              /\ ~status'.has_start_point
              /\ ~status'.has_stop_point
              /\ status'.reason = "unset" ]_vars

\* a full pull over cycle whose stop obstacle could not be created recorded
\* its new stop point all the same
C19_Witness ==
  /\ ScanFound
  /\ ~built.obstacle
  /\ built.decision = NoDecision
  /\ status.has_stop_point
  /\ status.stop_point = stop_point

\* C20: the stop point of a full pull over cycle, reused or found by the
\* scan, is at least operation_length ahead of the front edge of that cycle;
\* a recorded stop point that the front edge has come closer to than
\* operation_length is not reused: the scanner runs.
C20_ClearanceEveryCycle ==
  [][ /\ (pc' = "returned" /\ outcome' = "FullPullOver")
           => StopS' - adc_front_edge_s' >= cfg'.operation_length
      /\ (CalledWithCache /\ CachedS - adc_front_edge_s < cfg.operation_length)
           => (pc' = "scan" /\ scanner_runs' = 1 /\ outcome' = "None") ]_vars

\* the vehicle has come closer than operation_length to a stop point that an
\* earlier cycle found on this line, ahead of it still, and the scanner runs
C20_Witness ==
  /\ pc = "scan"
  /\ HasCachedStop(status)
  /\ CachedS <= line_length
  /\ CachedS - adc_front_edge_s >= 0
  /\ CachedS - adc_front_edge_s < cfg.operation_length

=============================================================================
